---- MODULE Spec2Model ----
(***************************************************************************)
(* The room state machine of stimer-backend: the room store               *)
(* (src/src/roomStore.ts) and the socket handlers that drive it            *)
(* (src/src/socket.ts).                                                    *)
(*                                                                         *)
(* A room is a record; every exported function of the store is an operator *)
(* from rooms to rooms, with its thrown error (if any) given by a separate *)
(* ...Err operator.  Each socket handler is an operator h... that returns  *)
(* the handler's outcome, and one action applies it.                       *)
(*                                                                         *)
(* Optional fields (startedAt?, timeLeft?, interval?) are None or Some(v). *)
(* An unset ownerClientId is "", an absent binding is 0: both are falsy in *)
(* the source's tests (`if (!sid)`, `if (slot.ownerClientId)`).            *)
(*                                                                         *)
(* Time.  The clock is kept relative to the present: Date.now() is Now,    *)
(* and the passing of Step milliseconds moves every stored timestamp       *)
(* (room.startedAt, the interval's due time) Step milliseconds into the    *)
(* past.  The clock is read only by startRound, stopRound, resumeRound and *)
(* tick, and resumeRound overwrites startedAt, so time is advanced only    *)
(* while a round is RUNNING.                                               *)
(***************************************************************************)
EXTENDS Integers, Sequences, FiniteSets, TLC

VARIABLES
    live,            \* the room is in the registry `rooms`
    room,            \* the Room object
    codes,           \* number of room codes generated so far
    emptyRoomTimers, \* codes with an armed empty-room timer
    joined,          \* clients with a socket in the room's channel (socket.rooms)
    fired30,         \* times onWarn30 was invoked in the round in progress
    fired60,         \* times onWarn60 was invoked in the round in progress
    last             \* the last operation: its name, its result, the events it emitted

vars == <<live, room, codes, emptyRoomTimers, joined, fired30, fired60, last>>

----------------------------------------------------------------------------
(* Bounds of the model *)

MaxStations == 2
MaxRooms == 1
MaxLateSteps == 1

Clients == {"c0", "c1", "c2"}

(* Program constants *)

TickPeriodMs == 1000
Warn30At == 30
Warn60At == 60
MaxSlotId == 200

Step == TickPeriodMs \div 2
Now == 0

None == <<>>
Some(v) == <<v>>
Val(o) == o[1]

Max(a, b) == IF a >= b THEN a ELSE b

----------------------------------------------------------------------------
(* types.ts *)

StationSlot(i) == [id |-> i, ownerClientId |-> "", ready |-> FALSE, connected |-> FALSE]

Cleared(s) == [s EXCEPT !.ownerClientId = "", !.ready = FALSE, !.connected = FALSE]

NoRoom ==
    [code |-> 0, centralClientId |-> "", state |-> "WAITING", stationsCount |-> 0,
     roundDurationSec |-> 0, stations |-> <<>>, bindings |-> [c \in Clients |-> 0],
     interval |-> None, timeLeft |-> None, startedAt |-> None,
     warned30 |-> FALSE, warned60 |-> FALSE, pendingCompaction |-> FALSE]

Has(r, i) == i \in DOMAIN r.stations

Owned(r, i) == Has(r, i) /\ r.stations[i].ownerClientId # ""

----------------------------------------------------------------------------
(* roomStore.ts *)

genCode(n) == n + 1

makeStations(n) == [i \in 1..n |-> StationSlot(i)]

createRoom(centralClientId, stationsCount, roundDurationSec, code) ==
    [code |-> code, centralClientId |-> centralClientId, state |-> "WAITING",
     stationsCount |-> stationsCount, roundDurationSec |-> roundDurationSec,
     stations |-> makeStations(stationsCount), bindings |-> [c \in Clients |-> 0],
     interval |-> None, timeLeft |-> None, startedAt |-> None,
     warned30 |-> FALSE, warned60 |-> FALSE, pendingCompaction |-> FALSE]

isRoomEmpty(r) == \A i \in DOMAIN r.stations : ~r.stations[i].connected

(* a disconnect that gives the seat up *)
onClientDisconnect_Releases(r, clientId) ==
    LET sid == r.bindings[clientId] IN
    IF sid # 0 /\ Has(r, sid)
    THEN [r EXCEPT !.stations[sid] = Cleared(@)]
    ELSE r

(* onClientDisconnect: the slot part; the timer part is scheduleCleanup *)
onClientDisconnect(r, clientId) ==
    LET sid == r.bindings[clientId] IN
    IF sid # 0 /\ Has(r, sid)
    THEN [r EXCEPT !.stations[sid].connected = FALSE]
    ELSE r

scheduleCleanup(timers, r) ==
    IF isRoomEmpty(r) /\ r.code \notin timers THEN timers \cup {r.code} ELSE timers

onAnyClientJoin(timers, r) == timers \ {r.code}

(* claimStation *)
claimStationErr(r, clientId, stationId) ==
    IF stationId < 1 \/ stationId > r.stationsCount THEN "E_INVALID_PAYLOAD"
    ELSE IF ~Has(r, stationId) THEN "TypeError"
    ELSE IF r.stations[stationId].ownerClientId # ""
            /\ r.stations[stationId].ownerClientId # clientId THEN "E_STATION_TAKEN"
    ELSE "ok"

releasePrev(r, clientId, stationId) ==
    LET prev == r.bindings[clientId] IN
    IF prev # 0 /\ prev # stationId /\ Has(r, prev)
    THEN [r EXCEPT !.stations[prev] = Cleared(@)]
    ELSE r

claimStation(r, clientId, stationId) ==
    LET r1 == releasePrev(r, clientId, stationId) IN
    [r1 EXCEPT !.stations[stationId].ownerClientId = clientId,
               !.stations[stationId].connected = TRUE,
               !.bindings[clientId] = stationId]

(* setReady *)
setReadyErr(r, clientId) ==
    IF r.bindings[clientId] # 0 /\ ~Has(r, r.bindings[clientId]) THEN "TypeError" ELSE "ok"

setReady(r, clientId, ready) ==
    LET sid == r.bindings[clientId] IN
    IF sid = 0 THEN r ELSE [r EXCEPT !.stations[sid].ready = ready]

allClaimedAndReady(r) ==
    \A i \in 1..r.stationsCount : Owned(r, i) /\ r.stations[i].ready

(* updateConfig without its guard on claimed slots *)
updateConfigErr_StateOnly(r, stationsCount) ==
    IF r.state # "WAITING" THEN "E_BAD_STATE" ELSE "ok"

(* updateConfig *)
updateConfigErr(r, stationsCount) ==
    IF r.state # "WAITING" THEN "E_BAD_STATE"
    ELSE IF \E i \in (stationsCount + 1)..r.stationsCount : Owned(r, i) THEN "E_STATIONS_IN_USE"
    ELSE "ok"

updateConfig(r, stationsCount, roundDurationSec) ==
    LET kept == DOMAIN r.stations \ ((stationsCount + 1)..MaxSlotId) IN
    [r EXCEPT !.stationsCount = stationsCount,
              !.stations = [i \in kept \cup (1..stationsCount) |->
                               IF i \in kept THEN r.stations[i] ELSE StationSlot(i)],
              !.roundDurationSec = roundDurationSec]

(* startRound without its allClaimedAndReady check *)
startRoundErr_StateOnly(r) ==
    IF r.state # "WAITING" THEN "E_BAD_STATE" ELSE "ok"

(* startRound *)
startRoundErr(r) ==
    IF r.state # "WAITING" THEN "E_BAD_STATE"
    ELSE IF ~allClaimedAndReady(r) THEN "E_BAD_STATE"
    ELSE "ok"

startRound(r) ==
    [r EXCEPT !.state = "RUNNING", !.startedAt = Some(Now),
              !.timeLeft = Some(r.roundDurationSec),
              !.warned30 = FALSE, !.warned60 = FALSE]

(* Math.floor((Date.now() - startedAt) / 1000) *)
elapsedSec(startedAt) == (Now - startedAt) \div 1000

(* the remaining seconds without the clamp at 0 *)
remaining_Unclamped(r, startedAt) == r.roundDurationSec - elapsedSec(startedAt)

remaining(r, startedAt) == Max(0, r.roundDurationSec - elapsedSec(startedAt))

(* stopRound *)
stopRoundErr(r) == IF r.state # "RUNNING" THEN "E_BAD_STATE" ELSE "ok"

stopRound(r) ==
    [r EXCEPT !.state = "ENDED", !.interval = None,
              !.timeLeft = Some(remaining(r, IF r.startedAt = None THEN Now
                                             ELSE Val(r.startedAt)))]

(* resumeRound without its guard on the retained time *)
resumeRoundErr_AnyTimeLeft(r) ==
    IF r.state # "ENDED" THEN "E_BAD_STATE" ELSE "ok"

(* resumeRound *)
resumeRoundErr(r) ==
    IF r.state # "ENDED" THEN "E_BAD_STATE"
    ELSE IF (IF r.timeLeft = None THEN 0 ELSE Val(r.timeLeft)) <= 0 THEN "E_BAD_STATE"
    ELSE "ok"

(* resumeRound that restarts the clock instead of recomputing startedAt *)
resumeRound_FromNow(r) ==
    LET tl == IF r.timeLeft = None THEN 0 ELSE Val(r.timeLeft) IN
    [r EXCEPT !.state = "RUNNING",
              !.startedAt = Some(Now),
              !.warned30 = (tl <= Warn30At),
              !.warned60 = (tl <= Warn60At)]

(* resumeRound that clears the warn latches as startRound does *)
resumeRound_ClearsLatches(r) ==
    LET tl == IF r.timeLeft = None THEN 0 ELSE Val(r.timeLeft) IN
    [r EXCEPT !.state = "RUNNING",
              !.startedAt = Some(Now - (r.roundDurationSec - tl) * 1000),
              !.warned30 = FALSE,
              !.warned60 = FALSE]

resumeRound(r) ==
    LET tl == IF r.timeLeft = None THEN 0 ELSE Val(r.timeLeft) IN
    [r EXCEPT !.state = "RUNNING",
              !.startedAt = Some(Now - (r.roundDurationSec - tl) * 1000),
              !.warned30 = (tl <= Warn30At),
              !.warned60 = (tl <= Warn60At)]

(* maybeApplyPendingCompaction / tailCompactIfWaiting *)
RECURSIVE tailCount(_, _)
tailCount(r, n) ==
    IF n > 0 /\ ~(Has(r, n) /\ (r.stations[n].ownerClientId # ""
                                \/ r.stations[n].ready \/ r.stations[n].connected))
    THEN tailCount(r, n - 1)
    ELSE n

(* a tail compaction that drops one slot at most *)
tailCompactIfWaiting_OneSlot(r) ==
    IF r.state # "WAITING" THEN r
    ELSE LET newCount == Max(tailCount(r, r.stationsCount), r.stationsCount - 1) IN
         IF newCount < r.stationsCount /\ newCount >= 0
         THEN [r EXCEPT !.stations = [i \in DOMAIN r.stations \ ((newCount + 1)..r.stationsCount)
                                         |-> r.stations[i]],
                        !.stationsCount = newCount]
         ELSE r

tailCompactIfWaiting(r) ==
    IF r.state # "WAITING" THEN r
    ELSE LET newCount == tailCount(r, r.stationsCount) IN
         IF newCount < r.stationsCount
         THEN [r EXCEPT !.stations = [i \in DOMAIN r.stations \ ((newCount + 1)..r.stationsCount)
                                         |-> r.stations[i]],
                        !.stationsCount = newCount]
         ELSE r

(* the pending compaction with the latch cleared and no slot dropped *)
maybeApplyPendingCompaction_LatchOnly(r) ==
    IF r.state # "WAITING" THEN r
    ELSE IF ~r.pendingCompaction THEN r
    ELSE [r EXCEPT !.pendingCompaction = FALSE]

maybeApplyPendingCompaction(r) ==
    IF r.state # "WAITING" THEN r
    ELSE IF ~r.pendingCompaction THEN r
    ELSE [tailCompactIfWaiting(r) EXCEPT !.pendingCompaction = FALSE]

(* resetToWaiting without the loop that clears the ready flags *)
resetToWaiting_KeepsReady(r) ==
    maybeApplyPendingCompaction(
        [r EXCEPT !.state = "WAITING", !.startedAt = None, !.timeLeft = None,
                  !.warned30 = FALSE, !.warned60 = FALSE])

(* resetToWaiting *)
resetToWaiting(r) ==
    maybeApplyPendingCompaction(
        [r EXCEPT !.stations = [i \in DOMAIN r.stations |-> [r.stations[i] EXCEPT !.ready = FALSE]],
                  !.state = "WAITING", !.startedAt = None, !.timeLeft = None,
                  !.warned30 = FALSE, !.warned60 = FALSE])

(* immediateEnd without its clearInterval block *)
immediateEnd_KeepsTimer(r) == [r EXCEPT !.timeLeft = Some(0), !.state = "ENDED"]

(* immediateEnd *)
immediateEnd(r) == [r EXCEPT !.interval = None, !.timeLeft = Some(0), !.state = "ENDED"]

(* tick: the room after the tick's own assignments, and which callbacks it invoked *)
tickRuns(r) == r.state = "RUNNING" /\ r.startedAt # None

tickWarn60(r, timeLeft) ==
    ~r.warned60 /\ r.roundDurationSec >= Warn60At /\ timeLeft = Warn60At

(* the 30-second check without its roundDurationSec > 30 conjunct *)
tickWarn30_AnyDuration(r, timeLeft) ==
    ~r.warned30 /\ timeLeft = Warn30At

tickWarn30(r, timeLeft) ==
    ~r.warned30 /\ timeLeft = Warn30At /\ r.roundDurationSec > Warn30At

(* a tick that counts itself as one second instead of reading the clock *)
tick_CountsTicks(r) ==
    IF ~tickRuns(r) THEN [room |-> r, warn60 |-> FALSE, warn30 |-> FALSE, timeUp |-> FALSE]
    ELSE LET tl == Max(0, (IF r.timeLeft = None THEN r.roundDurationSec ELSE Val(r.timeLeft)) - 1)
             w60 == tickWarn60(r, tl)
             w30 == tickWarn30(r, tl)
             r1 == [r EXCEPT !.timeLeft = Some(tl),
                             !.warned60 = (@ \/ w60),
                             !.warned30 = (@ \/ w30)]
         IN [room |-> IF tl = 0 THEN [r1 EXCEPT !.state = "ENDED", !.interval = None] ELSE r1,
             warn60 |-> w60, warn30 |-> w30, timeUp |-> (tl = 0)]

tick(r) ==
    IF ~tickRuns(r) THEN [room |-> r, warn60 |-> FALSE, warn30 |-> FALSE, timeUp |-> FALSE]
    ELSE LET tl == remaining(r, Val(r.startedAt))
             w60 == tickWarn60(r, tl)
             w30 == tickWarn30(r, tl)
             r1 == [r EXCEPT !.timeLeft = Some(tl),
                             !.warned60 = (@ \/ w60),
                             !.warned30 = (@ \/ w30)]
         IN [room |-> IF tl = 0 THEN [r1 EXCEPT !.state = "ENDED", !.interval = None] ELSE r1,
             warn60 |-> w60, warn30 |-> w30, timeUp |-> (tl = 0)]

(* renumberCompactIfWaiting: iteration i of the shifting loop, then the rest *)
RECURSIVE shiftDown(_, _)
shiftDown(r, i) ==
    IF i >= r.stationsCount THEN r
    ELSE LET src == IF Has(r, i + 1) THEN r.stations[i + 1] ELSE StationSlot(i + 1)
             dst == [id |-> i, ownerClientId |-> src.ownerClientId,
                     ready |-> src.ready, connected |-> src.connected]
             cid == src.ownerClientId
             st == [k \in DOMAIN r.stations \cup {i} |-> IF k = i THEN dst ELSE r.stations[k]]
             r1 == [r EXCEPT !.stations = st]
             r2 == IF cid # "" /\ r.bindings[cid] = i + 1
                   THEN [r1 EXCEPT !.bindings[cid] = i] ELSE r1
         IN shiftDown(r2, i + 1)

(* the end of renumberCompactIfWaiting without stations.delete *)
dropLast_KeepKey(r) ==
    [r EXCEPT !.stationsCount = Max(0, r.stationsCount - 1)]

dropLast(r) ==
    [r EXCEPT !.stations = [k \in DOMAIN r.stations \ {r.stationsCount} |-> r.stations[k]],
              !.stationsCount = Max(0, r.stationsCount - 1)]

renumberApplies(r, removedId) ==
    r.state = "WAITING" /\ removedId >= 1 /\ removedId <= r.stationsCount

renumberCompactIfWaiting(r, removedId) ==
    IF ~renumberApplies(r, removedId) THEN r
    ELSE LET r0 == IF Has(r, removedId)
                   THEN [r EXCEPT !.stations[removedId] = Cleared(@)] ELSE r
         IN dropLast(shiftDown(r0, removedId))

(* the list renumberCompactIfWaiting returns *)
RECURSIVE remaps(_, _)
remaps(r, i) ==
    IF i >= r.stationsCount THEN <<>>
    ELSE (IF Owned(r, i + 1)
          THEN <<[clientId |-> r.stations[i + 1].ownerClientId, oldId |-> i + 1, newId |-> i]>>
          ELSE <<>>) \o remaps(r, i + 1)

renumbered(r, removedId) ==
    IF ~renumberApplies(r, removedId) THEN <<>> ELSE remaps(r, removedId)

(* deleteRoom *)
deleteRoomErr(isLive) == IF ~isLive THEN "E_ROOM_NOT_FOUND" ELSE "ok"

----------------------------------------------------------------------------
(* socket.ts: the handlers.  Each returns the room it leaves, the acknowledged *)
(* result and the events it emitted.                                           *)

Out(r, res, events) == [room |-> r, res |-> res, events |-> events]

(* a handler without the auto-start block *)
autoStart_Never(r) ==
    Out(r, "ok", <<>>)

(* the auto-start block shared by station:join and station:setReady *)
autoStart(r) ==
    IF allClaimedAndReady(r) /\ r.state = "WAITING" /\ startRoundErr(r) = "ok"
    THEN Out([startRound(r) EXCEPT !.interval = Some(TickPeriodMs)], "ok", <<"room:started">>)
    ELSE Out(r, "ok", <<>>)

(* central:updateConfig writing the new count before the guards of updateConfig *)
hUpdateConfig_WritesFirst(r, clientId, stationsCount, roundDurationSec, limited) ==
    IF r.centralClientId # clientId THEN Out(r, "E_NOT_CENTRAL", <<>>)
    ELSE IF limited THEN Out(r, "E_RATE_LIMIT", <<>>)
    ELSE IF updateConfigErr(r, stationsCount) # "ok"
    THEN Out([r EXCEPT !.stationsCount = stationsCount],
             updateConfigErr(r, stationsCount), <<>>)
    ELSE Out(updateConfig(r, stationsCount, roundDurationSec), "ok", <<"room:updated">>)

hUpdateConfig(r, clientId, stationsCount, roundDurationSec, limited) ==
    IF r.centralClientId # clientId THEN Out(r, "E_NOT_CENTRAL", <<>>)
    ELSE IF limited THEN Out(r, "E_RATE_LIMIT", <<>>)
    ELSE IF updateConfigErr(r, stationsCount) # "ok"
    THEN Out(r, updateConfigErr(r, stationsCount), <<>>)
    ELSE Out(updateConfig(r, stationsCount, roundDurationSec), "ok", <<"room:updated">>)

(* central:deleteRoom without its RUNNING check *)
hDeleteRoomErr_AnyState(r, clientId, force) ==
    IF r.centralClientId # clientId THEN "E_NOT_CENTRAL"
    ELSE "ok"

hDeleteRoomErr(r, clientId, force) ==
    IF r.centralClientId # clientId THEN "E_NOT_CENTRAL"
    ELSE IF r.state = "RUNNING" /\ ~force THEN "E_BAD_STATE"
    ELSE "ok"

bindSlot(r, clientId, targetId) ==
    [r EXCEPT !.stations[targetId].ownerClientId = clientId,
              !.stations[targetId].connected = TRUE,
              !.bindings[clientId] = targetId]

(* station:join; stationId = 0 is a payload without stationId *)
joinTarget(r, clientId, stationId) == IF stationId # 0 THEN stationId ELSE r.bindings[clientId]

(* the join's bind condition without its owner check *)
joinBinds_AnyOwner(r, clientId, stationId) ==
    LET targetId == joinTarget(r, clientId, stationId) IN
    /\ targetId # 0
    /\ Has(r, targetId)

joinBinds(r, clientId, stationId) ==
    LET targetId == joinTarget(r, clientId, stationId) IN
    /\ targetId # 0
    /\ Has(r, targetId)
    /\ r.stations[targetId].ownerClientId \in {"", clientId}

hJoin(r, clientId, stationId) ==
    LET targetId == joinTarget(r, clientId, stationId) IN
    IF targetId = 0 THEN Out(r, "ok", <<>>)
    ELSE IF ~Has(r, targetId) THEN Out(r, "E_INVALID_PAYLOAD", <<>>)
    ELSE IF ~joinBinds(r, clientId, stationId)
    THEN Out(r, "E_STATION_TAKEN", <<"station:claimRejected">>)
    ELSE LET a == autoStart(bindSlot(r, clientId, targetId))
         IN Out(a.room, "ok", <<"room:updated">> \o a.events)

(* station:leave *)
hLeave(r, clientId) ==
    LET sid == r.bindings[clientId] IN
    IF sid = 0 THEN Out(r, "ok", <<>>)
    ELSE LET r1 == IF Has(r, sid) THEN [r EXCEPT !.stations[sid] = Cleared(@)] ELSE r
             r2 == [r1 EXCEPT !.bindings[clientId] = 0]
             r3 == IF r2.state = "RUNNING" THEN [r2 EXCEPT !.pendingCompaction = TRUE]
                   ELSE tailCompactIfWaiting(r2)
         IN Out(r3, "ok", <<"room:updated">>)

(* station:setReady *)
hSetReady(r, clientId, ready) ==
    IF setReadyErr(r, clientId) # "ok" THEN Out(r, setReadyErr(r, clientId), <<>>)
    ELSE LET a == autoStart(setReady(r, clientId, ready))
         IN Out(a.room, "ok", <<"room:updated">> \o a.events)

(* central:removeStation whose RUNNING branch does not defer a compaction *)
hRemoveStation_NoDeferral(r, clientId, stationId) ==
    IF r.centralClientId # clientId THEN Out(r, "E_NOT_CENTRAL", <<>>)
    ELSE IF stationId < 1 \/ stationId > r.stationsCount THEN Out(r, "E_INVALID_STATION", <<>>)
    ELSE IF ~Has(r, stationId) THEN Out(r, "E_INVALID_STATION", <<>>)
    ELSE IF r.state = "RUNNING"
    THEN Out([r EXCEPT !.stations[stationId] = Cleared(@)],
             "ok",
             (IF Owned(r, stationId) THEN <<"station:kicked">> ELSE <<>>) \o <<"room:updated">>)
    ELSE Out(renumberCompactIfWaiting(r, stationId), "ok",
             [k \in 1..Len(renumbered(r, stationId)) |-> "station:renumbered"]
                 \o <<"room:updated">>)

(* central:removeStation *)
hRemoveStation(r, clientId, stationId) ==
    IF r.centralClientId # clientId THEN Out(r, "E_NOT_CENTRAL", <<>>)
    ELSE IF stationId < 1 \/ stationId > r.stationsCount THEN Out(r, "E_INVALID_STATION", <<>>)
    ELSE IF ~Has(r, stationId) THEN Out(r, "E_INVALID_STATION", <<>>)
    ELSE IF r.state = "RUNNING"
    THEN Out([r EXCEPT !.stations[stationId] = Cleared(@), !.pendingCompaction = TRUE],
             "ok",
             (IF Owned(r, stationId) THEN <<"station:kicked">> ELSE <<>>) \o <<"room:updated">>)
    ELSE Out(renumberCompactIfWaiting(r, stationId), "ok",
             [k \in 1..Len(renumbered(r, stationId)) |-> "station:renumbered"]
                 \o <<"room:updated">>)

(* central:skipRound *)
hSkipRound(r, clientId) ==
    IF r.centralClientId # clientId THEN Out(r, "E_NOT_CENTRAL", <<>>)
    ELSE IF r.state # "RUNNING" THEN Out(r, "E_BAD_STATE", <<>>)
    ELSE Out(maybeApplyPendingCompaction(resetToWaiting(immediateEnd(r))), "ok",
             <<"room:timeUp", "room:skipped", "room:updated">>)

(* central:pauseRound without its check of the caller *)
hPauseRound_AnyCaller(r, clientId) ==
    IF stopRoundErr(r) # "ok" THEN Out(r, stopRoundErr(r), <<>>)
    ELSE Out(stopRound(r), "ok", <<"room:updated">>)

(* central:pauseRound *)
hPauseRound(r, clientId) ==
    IF r.centralClientId # clientId THEN Out(r, "E_NOT_CENTRAL", <<>>)
    ELSE IF stopRoundErr(r) # "ok" THEN Out(r, stopRoundErr(r), <<>>)
    ELSE Out(stopRound(r), "ok", <<"room:updated">>)

(* central:resumeRound *)
hResumeRound(r, clientId) ==
    IF r.centralClientId # clientId THEN Out(r, "E_NOT_CENTRAL", <<>>)
    ELSE IF resumeRoundErr(r) # "ok" THEN Out(r, resumeRoundErr(r), <<>>)
    ELSE Out([resumeRound(r) EXCEPT !.interval = Some(TickPeriodMs)], "ok", <<"room:resumed">>)

(* central:resetRoom without its clearInterval block *)
hResetRoom_KeepsTimer(r, clientId) ==
    IF r.centralClientId # clientId THEN Out(r, "E_NOT_CENTRAL", <<>>)
    ELSE Out(resetToWaiting(r), "ok", <<"room:updated">>)

(* central:resetRoom *)
hResetRoom(r, clientId) ==
    IF r.centralClientId # clientId THEN Out(r, "E_NOT_CENTRAL", <<>>)
    ELSE Out(resetToWaiting([r EXCEPT !.interval = None]), "ok", <<"room:updated">>)

(* the setInterval callback armed by station:join, station:setReady, central:resumeRound *)
hTick(r) ==
    LET t == tick(r)
        r1 == IF t.timeUp THEN resetToWaiting(t.room) ELSE t.room
        r2 == IF r1.interval # None THEN [r1 EXCEPT !.interval = Some(TickPeriodMs)] ELSE r1
    IN Out(r2, IF t.timeUp THEN "timeUp" ELSE IF tickRuns(r) THEN "ok" ELSE "idle",
           (IF t.warn60 THEN <<"room:warn60s">> ELSE <<>>)
           \o (IF t.warn30 THEN <<"room:warn30s">> ELSE <<>>)
           \o (IF t.timeUp THEN <<"room:timeUp", "room:updated">> ELSE <<>>)
           \o <<"room:tick">>)

----------------------------------------------------------------------------
(* The actions: one per socket event, timer callback and clock step.  Each     *)
(* takes the universe U its inputs are drawn from:                              *)
(*   U.creators, U.controllers, U.stationClients  the clients that send the    *)
(*       create command, the other central:* commands, the station:* commands; *)
(*   U.ns, U.ds   the station counts and round durations of the payloads;       *)
(*   U.step       the milliseconds one clock step takes;                        *)
(*   U.results    the results that are followed.  A command whose result is not *)
(*       among them and that changes nothing is a stuttering step.              *)

Accepted == {"ok", "timeUp", "idle"}

Rejections ==
    {"E_ROOM_NOT_FOUND", "E_NOT_CENTRAL", "E_RATE_LIMIT", "E_BAD_STATE", "E_STATIONS_IN_USE",
     "E_STATION_TAKEN", "E_INVALID_STATION", "E_INVALID_PAYLOAD", "TypeError"}

Done(op, res, events) == [op |-> op, res |-> res, events |-> events]

(* a handler ran on the live room and left `out` *)
Apply(U, op, out, timers, jn, w30, w60) ==
    /\ out.res \in U.results \/ <<out.room, timers, jn>> # <<room, emptyRoomTimers, joined>>
    /\ live' = live
    /\ room' = out.room
    /\ codes' = codes
    /\ emptyRoomTimers' = timers
    /\ joined' = jn
    /\ fired30' = IF out.room.state = "WAITING" THEN 0 ELSE fired30 + w30
    /\ fired60' = IF out.room.state = "WAITING" THEN 0 ELSE fired60 + w60
    /\ last' = Done(op, out.res, out.events)

(* the room left the registry *)
Removed(op, timers) ==
    /\ live' = FALSE
    /\ room' = NoRoom
    /\ codes' = codes
    /\ emptyRoomTimers' = timers
    /\ joined' = {}
    /\ fired30' = 0
    /\ fired60' = 0
    /\ last' = Done(op, "ok", <<"room:deleted">>)

CreateRoom(U) ==
    \E c \in U.creators, n \in U.ns, d \in U.ds :
        /\ ~live
        /\ codes < MaxRooms
        /\ live' = TRUE
        /\ room' = createRoom(c, n, d, genCode(codes))
        /\ codes' = genCode(codes)
        /\ joined' = {c}
        /\ last' = Done("central:createRoom", "ok", <<"room:updated">>)
        /\ UNCHANGED <<emptyRoomTimers, fired30, fired60>>

(* rateLimit(room.code) is not modelled: either answer is possible *)
UpdateConfig(U) ==
    \E c \in U.controllers, n \in U.ns, d \in U.ds, limited \in BOOLEAN :
        /\ live
        /\ Apply(U, "central:updateConfig", hUpdateConfig(room, c, n, d, limited),
                 emptyRoomTimers, joined, 0, 0)

DeleteRoom(U) ==
    \E c \in U.controllers, force \in BOOLEAN :
        /\ live
        /\ IF hDeleteRoomErr(room, c, force) = "ok"
           THEN Removed("central:deleteRoom", emptyRoomTimers)
           ELSE Apply(U, "central:deleteRoom", Out(room, hDeleteRoomErr(room, c, force), <<>>),
                      emptyRoomTimers, joined, 0, 0)

RemoveStation(U) ==
    \E c \in U.controllers, sid \in 1..MaxStations :
        /\ live
        /\ Apply(U, "central:removeStation", hRemoveStation(room, c, sid),
                 emptyRoomTimers, joined, 0, 0)

SkipRound(U) ==
    \E c \in U.controllers :
        /\ live
        /\ Apply(U, "central:skipRound", hSkipRound(room, c), emptyRoomTimers, joined, 0, 0)

PauseRound(U) ==
    \E c \in U.controllers :
        /\ live
        /\ Apply(U, "central:pauseRound", hPauseRound(room, c), emptyRoomTimers, joined, 0, 0)

ResumeRound(U) ==
    \E c \in U.controllers :
        /\ live
        /\ Apply(U, "central:resumeRound", hResumeRound(room, c), emptyRoomTimers, joined, 0, 0)

ResetRoom(U) ==
    \E c \in U.controllers :
        /\ live
        /\ Apply(U, "central:resetRoom", hResetRoom(room, c), emptyRoomTimers, joined, 0, 0)

(* socket.join(room.code) precedes the handler's checks *)
Join(U) ==
    \E c \in U.stationClients, sid \in 0..MaxStations :
        /\ live
        /\ Apply(U, "station:join", hJoin(room, c, sid),
                 IF joinBinds(room, c, sid) THEN onAnyClientJoin(emptyRoomTimers, room)
                 ELSE emptyRoomTimers,
                 joined \cup {c}, 0, 0)

Leave(U) ==
    \E c \in U.stationClients :
        /\ live
        /\ Apply(U, "station:leave", hLeave(room, c), emptyRoomTimers, joined, 0, 0)

SetReady(U) ==
    \E c \in U.stationClients, ready \in BOOLEAN :
        /\ live
        /\ Apply(U, "station:setReady", hSetReady(room, c, ready),
                 emptyRoomTimers, joined, 0, 0)

(* A socket that is in the room's channel closes.  A client may hold several  *)
(* sockets under one clientId (the handshake sets no limit), so the socket that *)
(* closes or leaves is not taken to be the client's last one in the channel.    *)
Disconnect(U) ==
    \E c \in joined :
        /\ live
        /\ Apply(U, "disconnect", Out(onClientDisconnect(room, c), "ok", <<"room:updated">>),
                 scheduleCleanup(emptyRoomTimers, onClientDisconnect(room, c)),
                 joined, 0, 0)

(* a command that names a code the registry does not hold *)
Commands ==
    {"central:updateConfig", "central:deleteRoom", "central:removeStation",
     "central:skipRound", "central:pauseRound", "central:resumeRound", "central:resetRoom",
     "station:join", "station:leave", "station:setReady"}

UnknownRoom(U) ==
    \E op \in Commands :
        /\ ~live
        /\ "E_ROOM_NOT_FOUND" \in U.results
        /\ last' = Done(op, "E_ROOM_NOT_FOUND", <<>>)
        /\ UNCHANGED <<live, room, codes, emptyRoomTimers, joined, fired30, fired60>>

(* the interval fires: not before it is due *)
Tick(U) ==
    /\ live
    /\ room.interval # None
    /\ Val(room.interval) <= 0
    /\ Apply(U, "tick", hTick(room), emptyRoomTimers, joined,
             IF tick(room).warn30 THEN 1 ELSE 0, IF tick(room).warn60 THEN 1 ELSE 0)

(* the empty-room timer of `code` expires *)
GraceExpire ==
    \E code \in emptyRoomTimers :
        IF deleteRoomErr(live /\ room.code = code) = "ok"
        THEN Removed("emptyRoomTimer", emptyRoomTimers \ {code})
        ELSE /\ emptyRoomTimers' = emptyRoomTimers \ {code}
             /\ last' = Done("emptyRoomTimer", deleteRoomErr(live /\ room.code = code), <<>>)
             /\ UNCHANGED <<live, room, codes, joined, fired30, fired60>>

(* U.step milliseconds pass during a round; a due tick runs at most MaxLateSteps *)
(* clock steps late, and the round is followed until it is a tick period past   *)
(* its duration                                                                  *)
AdvanceTime(U) ==
    /\ live
    /\ room.state = "RUNNING"
    /\ room.startedAt # None
    /\ Now - Val(room.startedAt) < room.roundDurationSec * 1000 + TickPeriodMs
    /\ room.interval # None => Val(room.interval) - U.step >= -(MaxLateSteps * U.step)
    /\ room' = [room EXCEPT !.startedAt = Some(Val(@) - U.step),
                            !.interval = IF @ = None THEN None ELSE Some(Val(@) - U.step)]
    /\ last' = Done("clock", "ok", <<>>)
    /\ UNCHANGED <<live, codes, emptyRoomTimers, joined, fired30, fired60>>

(* The store's exported functions called directly, as tests/roomStore.spec.ts   *)
(* calls them: no socket, no interval; a thrown error is the result.            *)

Try(r, err, done) == IF err = "ok" THEN Out(done, "ok", <<>>) ELSE Out(r, err, <<>>)

StCreateRoom(U) ==
    \E c \in U.creators, n \in U.ns, d \in U.ds :
        /\ ~live
        /\ codes < MaxRooms
        /\ live' = TRUE
        /\ room' = createRoom(c, n, d, genCode(codes))
        /\ codes' = genCode(codes)
        /\ last' = Done("createRoom", "ok", <<>>)
        /\ UNCHANGED <<emptyRoomTimers, joined, fired30, fired60>>

StClaimStation(U) ==
    \E c \in U.stationClients, sid \in 0..MaxStations :
        /\ live
        /\ Apply(U, "claimStation",
                 Try(room, claimStationErr(room, c, sid), claimStation(room, c, sid)),
                 emptyRoomTimers, joined, 0, 0)

StSetReady(U) ==
    \E c \in U.stationClients, ready \in BOOLEAN :
        /\ live
        /\ Apply(U, "setReady", Try(room, setReadyErr(room, c), setReady(room, c, ready)),
                 emptyRoomTimers, joined, 0, 0)

StUpdateConfig(U) ==
    \E n \in U.ns, d \in U.ds :
        /\ live
        /\ Apply(U, "updateConfig", Try(room, updateConfigErr(room, n), updateConfig(room, n, d)),
                 emptyRoomTimers, joined, 0, 0)

StStartRound(U) ==
    /\ live
    /\ Apply(U, "startRound", Try(room, startRoundErr(room), startRound(room)),
             emptyRoomTimers, joined, 0, 0)

StStopRound(U) ==
    /\ live
    /\ Apply(U, "stopRound", Try(room, stopRoundErr(room), stopRound(room)),
             emptyRoomTimers, joined, 0, 0)

StResumeRound(U) ==
    /\ live
    /\ Apply(U, "resumeRound", Try(room, resumeRoundErr(room), resumeRound(room)),
             emptyRoomTimers, joined, 0, 0)

StResetToWaiting(U) ==
    /\ live
    /\ Apply(U, "resetToWaiting", Out(resetToWaiting(room), "ok", <<>>),
             emptyRoomTimers, joined, 0, 0)

(* tick(room, onWarn30, onWarn60, onTimeUp) with counting callbacks; onTimeUp   *)
(* resets the room (reset) or only counts                                       *)
StTick(U) ==
    \E reset \in BOOLEAN :
        /\ live
        /\ Apply(U, "tick",
                 Out(IF tick(room).timeUp /\ reset THEN resetToWaiting(tick(room).room)
                     ELSE tick(room).room,
                     IF tick(room).timeUp THEN "timeUp" ELSE IF tickRuns(room) THEN "ok" ELSE "idle",
                     (IF tick(room).warn60 THEN <<"warn60">> ELSE <<>>)
                     \o (IF tick(room).warn30 THEN <<"warn30">> ELSE <<>>)
                     \o (IF tick(room).timeUp THEN <<"timeUp">> ELSE <<>>)),
                 emptyRoomTimers, joined,
                 IF tick(room).warn30 THEN 1 ELSE 0, IF tick(room).warn60 THEN 1 ELSE 0)

StoreCalls(U) ==
    \/ StCreateRoom(U)
    \/ StClaimStation(U)
    \/ StSetReady(U)
    \/ StUpdateConfig(U)
    \/ StStartRound(U)
    \/ StStopRound(U)
    \/ StResumeRound(U)
    \/ StResetToWaiting(U)
    \/ StTick(U)
    \/ AdvanceTime(U)

Handlers(U) ==
    \/ CreateRoom(U)
    \/ UpdateConfig(U)
    \/ DeleteRoom(U)
    \/ RemoveStation(U)
    \/ SkipRound(U)
    \/ PauseRound(U)
    \/ ResumeRound(U)
    \/ ResetRoom(U)
    \/ Join(U)
    \/ Leave(U)
    \/ SetReady(U)
    \/ Disconnect(U)
    \/ Tick(U)
    \/ GraceExpire
    \/ AdvanceTime(U)

Init ==
    /\ live = FALSE
    /\ room = NoRoom
    /\ codes = 0
    /\ emptyRoomTimers = {}
    /\ joined = {}
    /\ fired30 = 0
    /\ fired60 = 0
    /\ last = Done("init", "ok", <<>>)

----------------------------------------------------------------------------
(* Spec: the handlers with the station bookkeeping in full: every station     *)
(* count, two station clients, the shortest round the validators admit and a   *)
(* coarse clock.                                                               *)

Bookkeeping ==
    [creators |-> {"c0"}, controllers |-> {"c0"}, stationClients |-> {"c1", "c2"},
     ns |-> 1..MaxStations, ds |-> {10}, step |-> 10 * Step, results |-> Accepted]

Next == Handlers(Bookkeeping)

Spec == Init /\ [][Next]_vars

(* SpecRound: the handlers with the round's timing in full: one station, one   *)
(* station client, a round below and a round above the 30-second threshold, a  *)
(* clock of half seconds.                                                      *)

Rounds ==
    [creators |-> {"c0"}, controllers |-> {"c0"}, stationClients |-> {"c1"},
     ns |-> {1}, ds |-> {10, 32}, step |-> Step, results |-> Accepted]

NextRound == Handlers(Rounds)

SpecRound == Init /\ [][NextRound]_vars

(* SpecStore: the store called directly, with durations at and on both sides   *)
(* of the warning thresholds, every result followed, a clock of five seconds.  *)

Store ==
    [creators |-> {"c0"}, controllers |-> {"c0"}, stationClients |-> {"c1", "c2"},
     ns |-> 1..MaxStations, ds |-> {20, 30, 35, 60}, step |-> 10 * Step,
     results |-> Accepted \cup Rejections]

NextStore == StoreCalls(Store)

SpecStore == Init /\ [][NextStore]_vars

(* SpecRefusals: the handlers with every result followed, so that a refused    *)
(* command is a step of its own: a second client that sends the central:*      *)
(* commands, commands that name a room the registry no longer holds, and a     *)
(* clock that steps from the start of the shortest round to its end.           *)

Refusals ==
    [creators |-> {"c0"}, controllers |-> {"c0", "c1"}, stationClients |-> {"c1", "c2"},
     ns |-> 1..MaxStations, ds |-> {10}, step |-> 20 * Step,
     results |-> Accepted \cup Rejections]

NextRefusals == Handlers(Refusals) \/ UnknownRoom(Refusals)

SpecRefusals == Init /\ [][NextRefusals]_vars

(* SpecLatches: one station and a round longer than both warning thresholds,   *)
(* with a clock of whole seconds, so that a round can be paused and resumed    *)
(* above, between and below the thresholds.                                    *)

Latches ==
    [creators |-> {"c0"}, controllers |-> {"c0"}, stationClients |-> {"c1"},
     ns |-> {1}, ds |-> {62}, step |-> 2 * Step, results |-> Accepted]

NextLatches == Handlers(Latches)

SpecLatches == Init /\ [][NextLatches]_vars

(* SpecLive: rounds of ten seconds on the half-second clock, under the         *)
(* scheduling the runtime gives: the clock goes on, and an interval that is    *)
(* due runs its callback.                                                      *)

Live ==
    [creators |-> {"c0"}, controllers |-> {"c0"}, stationClients |-> {"c1"},
     ns |-> {1}, ds |-> {10}, step |-> Step, results |-> Accepted]

NextLive == Handlers(Live)

SpecLive ==
    /\ Init /\ [][NextLive]_vars
    /\ WF_vars(Tick(Live))
    /\ WF_vars(AdvanceTime(Live))

----------------------------------------------------------------------------
(* The properties.  They are stated on the room and on the record of the last  *)
(* operation, with the conditions spelled out instead of taken from the        *)
(* operators above.                                                            *)

EverySlotClaimedAndReady(r) ==
    \A i \in 1..r.stationsCount :
        /\ i \in DOMAIN r.stations
        /\ r.stations[i].ownerClientId # ""
        /\ r.stations[i].ready

SlotsOwnedBy(r, c) == {i \in DOMAIN r.stations : r.stations[i].ownerClientId = c}

Times(events, e) == Cardinality({k \in DOMAIN events : events[k] = e})

(* a slot that is claimed, ready or connected *)
Occupied(s) == s.ownerClientId # "" \/ s.ready \/ s.connected

(* the highest of the slots 1..n that is occupied, 0 if none is *)
LastOccupied(stations, n) ==
    LET occ == {i \in 1..n : i \in DOMAIN stations /\ Occupied(stations[i])}
    IN IF occ = {} THEN 0 ELSE CHOOSE i \in occ : \A j \in occ : j <= i

(* floor of the seconds a round that started at startedAt has run *)
SecondsSince(startedAt) == (0 - startedAt) \div 1000

(* C1: after any sequence of handler operations the keys of room.stations are  *)
(* exactly 1..stationsCount and the slot stored under key i has id = i.        *)
C1_StationsKeyedOneToCount ==
    live => /\ DOMAIN room.stations = 1..room.stationsCount
            /\ \A i \in DOMAIN room.stations : room.stations[i].id = i

(* a removal in WAITING has renumbered the occupant of slot 2 into slot 1 *)
C1_Witness ==
    /\ live
    /\ last.op = "central:removeStation"
    /\ last.events = <<"station:renumbered", "room:updated">>
    /\ room.stationsCount = 1
    /\ room.stations[1].ownerClientId # ""

(* C2: after any sequence of handler operations, for every client c and        *)
(* station s, bindings[c] = s if and only if stations[s].ownerClientId = c.    *)
C2_BindingsMatchOwners ==
    live => \A c \in Clients :
                \A s \in (DOMAIN room.stations \cup {room.bindings[c]}) \ {0} :
                    (room.bindings[c] = s)
                        <=> (s \in DOMAIN room.stations /\ room.stations[s].ownerClientId = c)

(* C3: single active binding: at every observable instant no client is the    *)
(* owner of more than one slot of the room (a claim of another slot releases   *)
(* the slot owned before).                                                     *)
C3_AtMostOneSlotPerClient ==
    live => \A c \in Clients : Cardinality(SlotsOwnedBy(room, c)) <= 1

(* C4: startRound succeeds if and only if the room is WAITING and every slot   *)
(* 1..stationsCount has an owner and is ready; otherwise it fails with         *)
(* E_BAD_STATE and leaves state, startedAt, timeLeft and the warn latches as   *)
(* they were.                                                                  *)
C4_StartRoundIffAllClaimedAndReady ==
    [][last'.op = "startRound" =>
          IF room.state = "WAITING" /\ EverySlotClaimedAndReady(room)
          THEN /\ last'.res = "ok"
               /\ room'.state = "RUNNING"
          ELSE /\ last'.res = "E_BAD_STATE"
               /\ room'.state = room.state
               /\ room'.startedAt = room.startedAt
               /\ room'.timeLeft = room.timeLeft
               /\ room'.warned30 = room.warned30
               /\ room'.warned60 = room.warned60]_vars

(* startRound was refused in a WAITING room whose first slot is claimed and    *)
(* not ready                                                                   *)
C4_Witness ==
    /\ live
    /\ last.op = "startRound"
    /\ last.res = "E_BAD_STATE"
    /\ room.state = "WAITING"
    /\ room.stationsCount >= 1
    /\ room.stations[1].ownerClientId # ""
    /\ ~room.stations[1].ready

(* C5: auto-start: when a station:join that binds a slot, or a                 *)
(* station:setReady, is handled in a WAITING room and leaves every slot        *)
(* 1..stationsCount claimed and ready, the room is RUNNING when the handler    *)
(* returns, with startedAt set to the present, timeLeft = roundDurationSec,    *)
(* both warn latches cleared and the tick timer armed.                         *)
C5_AutoStart ==
    [][(/\ last'.op \in {"station:join", "station:setReady"}
        /\ last'.res = "ok"
        /\ last'.events # <<>>
        /\ room.state = "WAITING"
        /\ EverySlotClaimedAndReady(room'))
       => /\ room'.state = "RUNNING"
          /\ room'.startedAt = <<0>>
          /\ room'.timeLeft = <<room'.roundDurationSec>>
          /\ ~room'.warned30
          /\ ~room'.warned60
          /\ room'.interval # <<>>]_vars

(* the second station of a two-station room turned ready and the round started *)
C5_Witness ==
    /\ live
    /\ last.op = "station:setReady"
    /\ last.events = <<"room:updated", "room:started">>
    /\ room.stationsCount = 2
    /\ room.state = "RUNNING"

(* C6: a WAITING room never rests with all its slots claimed and ready: after  *)
(* any operation, state = WAITING implies that some slot in 1..stationsCount   *)
(* is unclaimed or not ready.  Stated for rooms that have a slot at all.       *)
C6_WaitingNeverAllClaimedAndReady ==
    (live /\ room.state = "WAITING" /\ room.stationsCount >= 1)
        => \E i \in 1..room.stationsCount :
               \/ i \notin DOMAIN room.stations
               \/ room.stations[i].ownerClientId = ""
               \/ ~room.stations[i].ready

(* C7: in a round that runs to its natural time-up, the 60-second warning has  *)
(* fired exactly once if roundDurationSec >= 60 and the 30-second warning      *)
(* exactly once if roundDurationSec > 30; no warning fires twice in a round.   *)
(* Stated for rooms that have a slot.                                          *)
C7_WarningsExactlyOnce ==
    [][/\ fired30' <= 1
       /\ fired60' <= 1
       /\ (last'.op = "tick" /\ last'.res = "timeUp" /\ room.stationsCount >= 1)
              => /\ room.roundDurationSec > 30 => fired30 = 1
                 /\ room.roundDurationSec >= 60 => fired60 = 1]_vars

(* C8: in a round with roundDurationSec <= 30 the 30-second warning never      *)
(* fires, and in a round with roundDurationSec < 60 the 60-second warning      *)
(* never fires, whatever ticks, pauses and resumes occur.                      *)
C8_NoWarningInShortRound ==
    [][/\ room.roundDurationSec <= 30 => fired30' <= fired30
       /\ room.roundDurationSec < 60 => fired60' <= fired60]_vars

(* a tick saw timeLeft = 30 in a round of 30 seconds and no warning fired *)
C8_Witness ==
    /\ live
    /\ last.op = "tick"
    /\ last.events = <<>>
    /\ room.state = "RUNNING"
    /\ room.roundDurationSec = 30
    /\ room.timeLeft = <<30>>

(* C9: when an operation that reads the clock of a RUNNING round (the tick, or *)
(* the pause) finds the remaining time at 0, the time-up is emitted exactly    *)
(* once, the tick timer is cancelled, and the room is back in WAITING when the *)
(* operation returns; no step emits the time-up twice.  Stated for rooms that  *)
(* have a slot.                                                                *)
C9_TimeUpExactlyOnce ==
    [][/\ Times(last'.events, "room:timeUp") <= 1
       /\ (/\ last'.op \in {"tick", "central:pauseRound"}
           /\ room.state = "RUNNING"
           /\ room.stationsCount >= 1
           /\ room.startedAt # <<>>
           /\ room.roundDurationSec - SecondsSince(room.startedAt[1]) <= 0)
              => /\ Times(last'.events, "room:timeUp") = 1
                 /\ room'.interval = <<>>
                 /\ room'.state = "WAITING"]_vars

(* C10: pause freezes timeLeft = max(0, roundDurationSec - elapsed seconds);   *)
(* the resume that follows keeps timeLeft and sets startedAt so that           *)
(* roundDurationSec - elapsed seconds equals the frozen timeLeft at that       *)
(* instant.                                                                    *)
C10_PauseResumeRoundTrip ==
    [][/\ (last'.op = "central:pauseRound" /\ last'.res = "ok" /\ room.startedAt # <<>>)
              => LET left == room.roundDurationSec - SecondsSince(room.startedAt[1])
                 IN room'.timeLeft = <<IF left < 0 THEN 0 ELSE left>>
       /\ (last'.op = "central:resumeRound" /\ last'.res = "ok")
              => /\ room'.timeLeft = room.timeLeft
                 /\ room'.startedAt # <<>>
                 /\ <<room'.roundDurationSec - SecondsSince(room'.startedAt[1])>> = room.timeLeft]_vars

(* a round paused after part of its time was resumed *)
C10_Witness ==
    /\ live
    /\ last.op = "central:resumeRound"
    /\ last.res = "ok"
    /\ room.state = "RUNNING"
    /\ room.stationsCount = 1
    /\ room.stations[1].ownerClientId # ""
    /\ room.timeLeft # <<>>
    /\ room.timeLeft[1] < room.roundDurationSec

C12_RenumberCompaction ==
    (live /\ room.state = "WAITING" /\ DOMAIN room.stations = 1..room.stationsCount)
        => \A k \in 1..room.stationsCount :
               LET n == room.stationsCount
                   new == hRemoveStation(room, room.centralClientId, k).room
               IN /\ new.stationsCount = n - 1
                  /\ \A i \in k..(n - 1) :
                         /\ i \in DOMAIN new.stations
                         /\ new.stations[i].ownerClientId = room.stations[i + 1].ownerClientId
                         /\ new.stations[i].ready = room.stations[i + 1].ready
                         /\ new.stations[i].connected = room.stations[i + 1].connected
                         /\ room.stations[i + 1].ownerClientId # ""
                                => new.bindings[room.stations[i + 1].ownerClientId] = i
                  /\ \A i \in 1..(k - 1) :
                         /\ i \in DOMAIN new.stations
                         /\ new.stations[i] = room.stations[i]
                         /\ room.stations[i].ownerClientId # ""
                                => new.bindings[room.stations[i].ownerClientId]
                                       = room.bindings[room.stations[i].ownerClientId]

(* C13: deferred compaction.  (a) A step that starts and ends with the room    *)
(* RUNNING or ENDED changes neither stationsCount nor the set of slot ids.     *)
(* (b) A removal or a leave that vacates a slot while the room is RUNNING sets *)
(* pendingCompaction, and pendingCompaction stays set while the room is        *)
(* RUNNING or ENDED.  (c) The step that returns such a room to WAITING (reset, *)
(* skip, natural time-up) leaves pendingCompaction false and the slots without *)
(* a trailing run of unclaimed, not-ready, not-connected slots: every dropped  *)
(* slot was unclaimed and not connected, and the new last slot is not.         *)
C13_DeferredCompaction ==
    [][(live /\ live') =>
          /\ (room.state \in {"RUNNING", "ENDED"} /\ room'.state \in {"RUNNING", "ENDED"})
                 => /\ room'.stationsCount = room.stationsCount
                    /\ DOMAIN room'.stations = DOMAIN room.stations
                    /\ \A i \in DOMAIN room.stations : room'.stations[i].id = room.stations[i].id
                    /\ room.pendingCompaction => room'.pendingCompaction
          /\ (/\ room.state = "RUNNING"
              /\ last'.op \in {"central:removeStation", "station:leave"}
              /\ last'.res = "ok"
              /\ last'.events # <<>>)
                 => room'.pendingCompaction
          /\ (/\ room.state \in {"RUNNING", "ENDED"}
              /\ room.pendingCompaction
              /\ room'.state = "WAITING")
                 => /\ last'.op \in {"central:resetRoom", "central:skipRound", "tick"}
                    /\ ~room'.pendingCompaction
                    /\ room'.stationsCount <= room.stationsCount
                    /\ DOMAIN room'.stations
                           = DOMAIN room.stations \ ((room'.stationsCount + 1)..room.stationsCount)
                    /\ \A i \in (room'.stationsCount + 1)..room.stationsCount :
                           Has(room, i) => /\ room.stations[i].ownerClientId = ""
                                           /\ ~room.stations[i].connected
                    /\ room'.stationsCount > 0
                           => /\ Has(room', room'.stationsCount)
                              /\ \/ room'.stations[room'.stationsCount].ownerClientId # ""
                                 \/ room'.stations[room'.stationsCount].ready
                                 \/ room'.stations[room'.stationsCount].connected
      ]_vars

(* a paused round whose last slot was vacated while it ran: the slot is still   *)
(* there, cleared, and the compaction is still pending                         *)
C13_Witness ==
    /\ live /\ last.op = "central:pauseRound" /\ last.res = "ok"
    /\ room.state = "ENDED" /\ room.pendingCompaction
    /\ room.stationsCount = 2 /\ DOMAIN room.stations = {1, 2}
    /\ room.stations[1].ownerClientId # ""
    /\ room.stations[2] = Cleared(room.stations[2])

C15_ErrorsLeaveRoomUnchanged ==
    [][last'.res \in Rejections =>
          /\ live' = live
          /\ room'.state = room.state
          /\ room'.stationsCount = room.stationsCount
          /\ room'.roundDurationSec = room.roundDurationSec
          /\ room'.stations = room.stations
          /\ room'.bindings = room.bindings
          /\ room'.startedAt = room.startedAt
          /\ room'.timeLeft = room.timeLeft
          /\ room'.warned30 = room.warned30
          /\ room'.warned60 = room.warned60
          /\ room'.pendingCompaction = room.pendingCompaction
      ]_vars

(* the controller asked for one station while slot 2 is claimed *)
C15_Witness ==
    /\ live /\ last.op = "central:updateConfig" /\ last.res = "E_STATIONS_IN_USE"
    /\ room.state = "WAITING" /\ room.stationsCount = 2
    /\ room.stations[2].ownerClientId # ""

(* C16: a station:join for a slot owned by a different client is rejected with *)
(* E_STATION_TAKEN (the station:claimRejected event) and changes nothing: the  *)
(* slot keeps its owner, ready and connected values and both clients keep      *)
(* their bindings.  The store's claimStation refuses the same claim with       *)
(* E_STATION_TAKEN.  For every such join on every room the handlers reach.     *)
C16_TakenStationRefused ==
    live => \A c \in Refusals.stationClients, sid \in 1..MaxStations :
                (Has(room, sid) /\ room.stations[sid].ownerClientId \notin {"", c})
                    => LET out == hJoin(room, c, sid)
                           owner == room.stations[sid].ownerClientId
                       IN /\ out.res = "E_STATION_TAKEN"
                          /\ out.events = <<"station:claimRejected">>
                          /\ out.room.stations[sid] = room.stations[sid]
                          /\ out.room.bindings[c] = room.bindings[c]
                          /\ out.room.bindings[owner] = room.bindings[owner]
                          /\ out.room = room
                          /\ claimStationErr(room, c, sid) = "E_STATION_TAKEN"

(* c2 asked for the slot c1 holds and was turned away *)
C16_Witness ==
    /\ live /\ last.op = "station:join" /\ last.res = "E_STATION_TAKEN"
    /\ \E sid \in DOMAIN room.stations : room.stations[sid].ownerClientId # ""

(* C17: the disconnect of a client sets connected = FALSE on the slot the      *)
(* client is bound to and changes nothing else of the room: that slot's owner  *)
(* and ready flag, every other slot, the bindings, stationsCount and the round *)
(* state are as before; a client that owns the slot gets the same seat back    *)
(* with a station:join that names no station.                                  *)
C17_DisconnectOnlyClearsConnected ==
    [][last'.op = "disconnect" =>
          \E c \in joined :
              LET sid == room.bindings[c] IN
              /\ live'
              /\ DOMAIN room'.stations = DOMAIN room.stations
              /\ \A i \in DOMAIN room.stations :
                     room'.stations[i] = IF i = sid THEN [room.stations[i] EXCEPT !.connected = FALSE]
                                         ELSE room.stations[i]
              /\ room' = [room EXCEPT !.stations = room'.stations]
              /\ (Has(room, sid) /\ room.stations[sid].ownerClientId = c)
                     => LET back == hJoin(room', c, 0) IN
                        /\ back.res = "ok"
                        /\ back.room.bindings[c] = sid
                        /\ back.room.stations[sid].ownerClientId = c
                        /\ back.room.stations[sid].connected
                        /\ back.room.stations[sid].ready = room.stations[sid].ready
      ]_vars

(* a client that was ready went away: its seat is kept, ready, not connected *)
C17_Witness ==
    /\ live /\ last.op = "disconnect"
    /\ \E c \in joined :
           /\ Has(room, room.bindings[c])
           /\ room.stations[room.bindings[c]].ownerClientId = c
           /\ room.stations[room.bindings[c]].ready
           /\ ~room.stations[room.bindings[c]].connected

(* C18: the empty-room grace timer.  (a) A disconnect that leaves no slot      *)
(* connected leaves a grace timer armed for the room's code.  (b) The expiry   *)
(* of the timer of a registered room removes the room.  (c) A station:join     *)
(* that the room accepts, from any client, leaves no grace timer armed for the *)
(* room.  (d) While some slot is connected no grace timer is armed for the     *)
(* room.                                                                       *)
C18_GraceTimer ==
    /\ []((live /\ ~isRoomEmpty(room)) => room.code \notin emptyRoomTimers)
    /\ [][/\ (last'.op = "disconnect" /\ live' /\ isRoomEmpty(room'))
                 => room'.code \in emptyRoomTimers'
          /\ (last'.op = "emptyRoomTimer" /\ live) => ~live'
          /\ (last'.op = "station:join" /\ last'.res = "ok" /\ live')
                 => room'.code \notin emptyRoomTimers'
         ]_vars

C20_ReadyImpliesClaimed ==
    live => \A i \in DOMAIN room.stations :
                room.stations[i].ready => room.stations[i].ownerClientId # ""

(* C21: whenever the room is RUNNING startedAt is set; whenever it is WAITING  *)
(* startedAt and timeLeft are unset; and a tick of a running round leaves      *)
(* timeLeft = max(0, roundDurationSec - floor(seconds since startedAt)), read  *)
(* from the clock however late or early the tick runs: while that value is     *)
(* positive the round goes on with it, and when it is 0 the tick is the        *)
(* time-up.                                                                    *)
C21_TimeLeftFromClock ==
    /\ [](live => /\ room.state = "RUNNING" => room.startedAt # None
                  /\ room.state = "WAITING" => (room.startedAt = None /\ room.timeLeft = None))
    /\ [][(last'.op = "tick" /\ live /\ room.state = "RUNNING" /\ room.startedAt # None) =>
              LET due == Max(0, room.roundDurationSec - SecondsSince(Val(room.startedAt))) IN
              IF due = 0
              THEN last'.res = "timeUp" /\ Times(last'.events, "room:timeUp") = 1
              ELSE /\ last'.res = "ok"
                   /\ room'.state = "RUNNING"
                   /\ room'.startedAt = room.startedAt
                   /\ room'.timeLeft = Some(due)
         ]_vars

(* a tick that ran half a second late and skipped no second of the clock *)
C21_Witness ==
    /\ live /\ last.op = "tick" /\ last.res = "ok"
    /\ room.state = "RUNNING" /\ room.startedAt # None
    /\ (Now - Val(room.startedAt)) % 1000 # 0
    /\ room.timeLeft = Some(room.roundDurationSec - SecondsSince(Val(room.startedAt)))
    /\ Val(room.timeLeft) < room.roundDurationSec - 1
    /\ room.stationsCount >= 1 /\ EverySlotClaimedAndReady(room)

(* C22: the room's state changes only along WAITING -> RUNNING (the start, in  *)
(* a room whose every slot is claimed and ready), RUNNING -> ENDED (pause),    *)
(* ENDED -> RUNNING (resume, with timeLeft > 0) and any state -> WAITING (the  *)
(* reset; skip and the time-up end the round and reset it within one step);    *)
(* and the controller's pause of a room that is not RUNNING, resume of a room  *)
(* that is not ENDED or has no time left, and skip of a room that is not       *)
(* RUNNING fail with E_BAD_STATE, and succeed otherwise.                       *)
C22_StateTransitions ==
    /\ [](live =>
              LET c == room.centralClientId
                  tl == IF room.timeLeft = None THEN 0 ELSE Val(room.timeLeft)
              IN /\ hPauseRound(room, c).res
                        = IF room.state # "RUNNING" THEN "E_BAD_STATE" ELSE "ok"
                 /\ hResumeRound(room, c).res
                        = IF room.state # "ENDED" \/ tl <= 0 THEN "E_BAD_STATE" ELSE "ok"
                 /\ hSkipRound(room, c).res
                        = IF room.state # "RUNNING" THEN "E_BAD_STATE" ELSE "ok")
    /\ [][(live /\ live' /\ room'.state # room.state) =>
              \/ /\ room.state = "WAITING" /\ room'.state = "RUNNING"
                 /\ last'.op \in {"station:join", "station:setReady"}
                 /\ Times(last'.events, "room:started") = 1
                 /\ EverySlotClaimedAndReady(room')
              \/ /\ room.state = "RUNNING" /\ room'.state = "ENDED"
                 /\ last'.op = "central:pauseRound"
              \/ /\ room.state = "ENDED" /\ room'.state = "RUNNING"
                 /\ last'.op = "central:resumeRound"
                 /\ room.timeLeft # None /\ Val(room.timeLeft) > 0
              \/ /\ room.state = "RUNNING" /\ room'.state = "WAITING"
                 /\ last'.op \in {"central:resetRoom", "central:skipRound", "tick"}
              \/ /\ room.state = "ENDED" /\ room'.state = "WAITING"
                 /\ last'.op = "central:resetRoom"
         ]_vars

(* a round paused with no time left: the resume was refused *)
C22_Witness ==
    /\ live /\ last.op = "central:resumeRound" /\ last.res = "E_BAD_STATE"
    /\ room.state = "ENDED" /\ room.timeLeft = Some(0)

(* C23: the controller's reset has no guard and is idempotent: from every      *)
(* state it is accepted and leaves the room WAITING with ready = FALSE on      *)
(* every slot, startedAt and timeLeft unset, both warn latches false, no tick  *)
(* timer and no compaction pending (a pending one has dropped the trailing     *)
(* empty slots); the slots that remain keep their ids, owners and connected    *)
(* flags and the bindings are kept; a second reset changes nothing.            *)
C23_ResetIdempotent ==
    live =>
        LET out == hResetRoom(room, room.centralClientId)
            r1 == out.room
            again == hResetRoom(r1, r1.centralClientId)
        IN /\ out.res = "ok"
           /\ r1.state = "WAITING"
           /\ r1.startedAt = None /\ r1.timeLeft = None
           /\ ~r1.warned30 /\ ~r1.warned60
           /\ r1.interval = None
           /\ ~r1.pendingCompaction
           /\ DOMAIN r1.stations \subseteq DOMAIN room.stations
           /\ \A i \in DOMAIN r1.stations :
                  r1.stations[i] = [room.stations[i] EXCEPT !.ready = FALSE]
           /\ \A i \in DOMAIN room.stations \ DOMAIN r1.stations :
                  /\ room.pendingCompaction
                  /\ i > r1.stationsCount
                  /\ room.stations[i].ownerClientId = ""
                  /\ ~room.stations[i].connected
           /\ room.pendingCompaction
                  => (r1.stationsCount = 0
                      \/ (Has(r1, r1.stationsCount)
                          /\ (r1.stations[r1.stationsCount].ownerClientId # ""
                              \/ r1.stations[r1.stationsCount].connected)))
           /\ ~room.pendingCompaction => r1.stationsCount = room.stationsCount
           /\ r1.bindings = room.bindings
           /\ r1.roundDurationSec = room.roundDurationSec
           /\ again.res = "ok"
           /\ again.room = r1

(* a reset room that kept a claimed, connected seat and dropped nothing else *)
C23_Witness ==
    /\ live /\ last.op = "central:resetRoom" /\ last.res = "ok"
    /\ room.state = "WAITING" /\ room.interval = None
    /\ room.stationsCount = 1 /\ DOMAIN room.stations = {1}
    /\ room.stations[1].ownerClientId # "" /\ room.stations[1].connected
    /\ ~room.stations[1].ready

(* C24: the controller's skip of a RUNNING room ends the round at once         *)
(* (timeLeft 0, ENDED, no tick timer), emits room:timeUp, then room:skipped,   *)
(* then the snapshot, and completes with the room reset: WAITING, every ready  *)
(* flag false, startedAt and timeLeft unset, no tick timer, no compaction      *)
(* pending and no unclaimed, not-connected slot left at the tail if one was    *)
(* pending; the next tick that runs belongs to a round started after the skip. *)
C24_SkipEndsAndResets ==
    /\ []((live /\ room.state = "RUNNING")
              => /\ immediateEnd(room).timeLeft = Some(0)
                 /\ immediateEnd(room).state = "ENDED"
                 /\ immediateEnd(room).interval = None)
    /\ [][/\ (last'.op = "central:skipRound" /\ last'.res = "ok") =>
                 /\ room.state = "RUNNING"
                 /\ last'.events = <<"room:timeUp", "room:skipped", "room:updated">>
                 /\ live'
                 /\ room'.state = "WAITING"
                 /\ room'.startedAt = None /\ room'.timeLeft = None
                 /\ room'.interval = None
                 /\ ~room'.pendingCompaction
                 /\ \A i \in DOMAIN room'.stations :
                        /\ Has(room, i)
                        /\ room'.stations[i] = [room.stations[i] EXCEPT !.ready = FALSE]
                 /\ room.pendingCompaction
                        => (room'.stationsCount = 0
                            \/ (Has(room', room'.stationsCount)
                                /\ (room'.stations[room'.stationsCount].ownerClientId # ""
                                    \/ room'.stations[room'.stationsCount].connected)))
                 /\ ~room.pendingCompaction => room'.stations = [i \in DOMAIN room.stations |->
                                                   [room.stations[i] EXCEPT !.ready = FALSE]]
          /\ last'.op = "tick" => (room.interval # None /\ last.op # "central:skipRound")
         ]_vars

(* a skipped round: the seat is kept, not ready, and the room waits *)
C24_Witness ==
    /\ live /\ last.op = "central:skipRound" /\ last.res = "ok"
    /\ room.state = "WAITING" /\ room.timeLeft = None /\ room.interval = None
    /\ room.stationsCount >= 1
    /\ room.stations[1].ownerClientId # "" /\ ~room.stations[1].ready

(* C25: station:setReady from a client that has no binding in the room is a    *)
(* no-op: it is accepted, emits only the snapshot, and the room (every slot,   *)
(* the bindings, stationsCount, the round state and its timer) is as before;   *)
(* in particular a WAITING room stays WAITING.                                 *)
C25_SetReadyUnboundNoOp ==
    live => \A c \in Bookkeeping.stationClients, ready \in BOOLEAN :
                room.bindings[c] = 0
                    => LET out == hSetReady(room, c, ready)
                       IN /\ out.res = "ok"
                          /\ out.room = room
                          /\ out.events = <<"room:updated">>

(* C26: every controller command (updateConfig, deleteRoom, removeStation,     *)
(* skipRound, pauseRound, resumeRound, resetRoom) sent by a client that is not *)
(* the room's centralClientId fails with E_NOT_CENTRAL, whatever its payload   *)
(* and the room's state, and leaves the room, the registry and the timers as   *)
(* they were.                                                                  *)
C26_NotControllerRefused ==
    /\ [](live => \A c \in Clients \ {room.centralClientId} :
              /\ \A n \in Refusals.ns, d \in Refusals.ds, limited \in BOOLEAN :
                     hUpdateConfig(room, c, n, d, limited) = Out(room, "E_NOT_CENTRAL", <<>>)
              /\ \A force \in BOOLEAN : hDeleteRoomErr(room, c, force) = "E_NOT_CENTRAL"
              /\ \A sid \in 0..(MaxStations + 1) :
                     hRemoveStation(room, c, sid) = Out(room, "E_NOT_CENTRAL", <<>>)
              /\ hSkipRound(room, c) = Out(room, "E_NOT_CENTRAL", <<>>)
              /\ hPauseRound(room, c) = Out(room, "E_NOT_CENTRAL", <<>>)
              /\ hResumeRound(room, c) = Out(room, "E_NOT_CENTRAL", <<>>)
              /\ hResetRoom(room, c) = Out(room, "E_NOT_CENTRAL", <<>>))
    /\ [][last'.res = "E_NOT_CENTRAL" =>
              /\ live /\ live'
              /\ room' = room
              /\ codes' = codes
              /\ emptyRoomTimers' = emptyRoomTimers
              /\ last'.op \in {"central:updateConfig", "central:deleteRoom",
                               "central:removeStation", "central:skipRound",
                               "central:pauseRound", "central:resumeRound",
                               "central:resetRoom"}
         ]_vars

(* a client that is not the controller tried to pause the round; it goes on *)
C26_Witness ==
    /\ live /\ last.op = "central:pauseRound" /\ last.res = "E_NOT_CENTRAL"
    /\ room.state = "RUNNING" /\ room.interval # None
    /\ room.stationsCount >= 1

(* C27: tail compaction.  On every room not WAITING tailCompactIfWaiting       *)
(* changes nothing.  On a WAITING room it removes exactly the slots above the  *)
(* highest slot that is claimed, ready or connected, sets stationsCount to     *)
(* that slot's id, and keeps every other slot and every binding as it was.     *)
(* A station:leave of a bound client in a WAITING room vacates the client's    *)
(* slot, deletes its binding and leaves the room so compacted.                 *)
C27_TailCompaction ==
    live =>
        /\ LET t == tailCompactIfWaiting(room)
               kept == LastOccupied(room.stations, room.stationsCount)
           IN IF room.state # "WAITING" THEN t = room
              ELSE /\ t.stationsCount = kept
                   /\ DOMAIN t.stations = DOMAIN room.stations \ ((kept + 1)..room.stationsCount)
                   /\ \A i \in DOMAIN t.stations : t.stations[i] = room.stations[i]
                   /\ t = [room EXCEPT !.stations = t.stations, !.stationsCount = kept]
        /\ \A c \in Bookkeeping.stationClients :
               (room.state = "WAITING" /\ room.bindings[c] # 0) =>
                   LET sid == room.bindings[c]
                       new == hLeave(room, c).room
                       vacated == [i \in DOMAIN room.stations |->
                                      IF i = sid THEN Cleared(room.stations[i])
                                      ELSE room.stations[i]]
                       kept == LastOccupied(vacated, room.stationsCount)
                   IN /\ new.stationsCount = kept
                      /\ DOMAIN new.stations
                             = DOMAIN room.stations \ ((kept + 1)..room.stationsCount)
                      /\ \A i \in DOMAIN new.stations : new.stations[i] = vacated[i]
                      /\ new.bindings = [room.bindings EXCEPT ![c] = 0]
                      /\ new.state = "WAITING"

(* the client of slot 2 left the waiting room: slot 2 is gone, slot 1 is kept *)
C27_Witness ==
    /\ live /\ last.op = "station:leave" /\ last.res = "ok" /\ last.events # <<>>
    /\ room.state = "WAITING" /\ room.stationsCount = 1 /\ DOMAIN room.stations = {1}
    /\ room.stations[1].ownerClientId # ""

(* C28: the controller's removal of station k from a RUNNING room clears slot  *)
(* k at once (no owner, not ready, not connected) and sets pendingCompaction;  *)
(* stationsCount, the ids and contents of the other slots, the bindings, the   *)
(* round state, startedAt, timeLeft and the tick timer are as before; the      *)
(* events are station:kicked, when slot k had an owner, and then room:updated. *)
C28_RemoveWhileRunning ==
    (live /\ room.state = "RUNNING") =>
        \A k \in DOMAIN room.stations :
            k \in 1..room.stationsCount =>
                LET out == hRemoveStation(room, room.centralClientId, k)
                    new == out.room
                IN /\ out.res = "ok"
                   /\ DOMAIN new.stations = DOMAIN room.stations
                   /\ new.stations[k] = [id |-> k, ownerClientId |-> "",
                                         ready |-> FALSE, connected |-> FALSE]
                   /\ \A i \in DOMAIN room.stations \ {k} : new.stations[i] = room.stations[i]
                   /\ new.pendingCompaction
                   /\ new = [room EXCEPT !.stations = new.stations, !.pendingCompaction = TRUE]
                   /\ out.events = IF room.stations[k].ownerClientId # ""
                                   THEN <<"station:kicked", "room:updated">>
                                   ELSE <<"room:updated">>

(* a claimed station was removed in mid-round: the round runs on, one slot     *)
(* cleared, the compaction pending                                             *)
C28_Witness ==
    /\ live /\ last.op = "central:removeStation" /\ last.res = "ok"
    /\ last.events = <<"station:kicked", "room:updated">>
    /\ room.state = "RUNNING" /\ room.interval # None /\ room.pendingCompaction
    /\ room.stationsCount = 2
    /\ \E k \in DOMAIN room.stations : room.stations[k] = Cleared(room.stations[k])

(* C29: the remap list of the renumber compaction of slot k of a WAITING room  *)
(* has exactly one entry (owner, i+1, i) for each slot i+1 in k+1..n that had  *)
(* an owner, in ascending order of oldId; no entry names the owner of the      *)
(* removed slot and none a slot below k; the handler emits one                 *)
(* station:renumbered per entry and then room:updated.                         *)
C29_RemapList ==
    (live /\ room.state = "WAITING") =>
        \A k \in 1..room.stationsCount :
            Has(room, k) =>
                LET list == renumbered(room, k)
                    out == hRemoveStation(room, room.centralClientId, k)
                    moved == {i \in (k + 1)..room.stationsCount : Owned(room, i)}
                IN /\ Len(list) = Cardinality(moved)
                   /\ \A j \in 1..Len(list) :
                          /\ list[j].oldId \in moved
                          /\ list[j].newId = list[j].oldId - 1
                          /\ list[j].clientId = room.stations[list[j].oldId].ownerClientId
                          /\ list[j].clientId # room.stations[k].ownerClientId
                   /\ \A i, j \in 1..Len(list) : i < j => list[i].oldId < list[j].oldId
                   /\ out.events = [j \in 1..Len(list) |-> "station:renumbered"]
                                       \o <<"room:updated">>

(* C30: an accepted resume recomputes the warn latches from the retained       *)
(* timeLeft: warned30 = (timeLeft <= 30) and warned60 = (timeLeft <= 60).  So  *)
(* a warning that has fired in the round stays latched through pause and       *)
(* resume, a latched warning does not fire, no warning fires twice in a round, *)
(* and a warning fires only on a tick that reads its threshold with the latch  *)
(* open.                                                                       *)
C30_LatchesRecomputedOnResume ==
    /\ []((live /\ room.state # "WAITING")
              => /\ fired30 <= 1 /\ fired60 <= 1
                 /\ fired30 = 1 => room.warned30
                 /\ fired60 = 1 => room.warned60)
    /\ [][/\ (last'.op = "central:resumeRound" /\ last'.res = "ok")
                 => /\ room.timeLeft # None
                    /\ room'.timeLeft = room.timeLeft
                    /\ room'.warned30 = (Val(room.timeLeft) <= 30)
                    /\ room'.warned60 = (Val(room.timeLeft) <= 60)
          /\ (last'.op = "tick" /\ Times(last'.events, "room:warn30s") > 0)
                 => /\ ~room.warned30
                    /\ Times(last'.events, "room:warn30s") = 1
                    /\ room'.timeLeft = Some(30)
          /\ (last'.op = "tick" /\ Times(last'.events, "room:warn60s") > 0)
                 => /\ ~room.warned60
                    /\ Times(last'.events, "room:warn60s") = 1
                    /\ room'.timeLeft = Some(60)
         ]_vars

(* a round resumed between the thresholds: the 60-second warning, fired before *)
(* the pause, is latched; the 30-second warning is still to come               *)
C30_Witness ==
    /\ live /\ last.op = "central:resumeRound" /\ last.res = "ok"
    /\ room.state = "RUNNING" /\ room.stationsCount = 1
    /\ room.timeLeft # None /\ Val(room.timeLeft) > 30 /\ Val(room.timeLeft) < 60
    /\ room.warned60 /\ ~room.warned30
    /\ fired60 = 1 /\ fired30 = 0

(* C31: a room always has at least one station: in every state reached from a  *)
(* room created with stationsCount >= 1, stationsCount >= 1; so no room is     *)
(* RUNNING with zero stations.                                                 *)
C31_AtLeastOneStation ==
    live => room.stationsCount >= 1

(* C32: a client changes only its own seat: a station:setReady or a disconnect *)
(* of client c changes the ready or connected flag of no slot other than one   *)
(* that c owns at that moment.  For every station client and every room the    *)
(* handlers reach.                                                             *)
C32_OnlyOwnSeat ==
    live => \A c \in Bookkeeping.stationClients :
                LET gone == onClientDisconnect(room, c) IN
                /\ \A ready \in BOOLEAN :
                       LET new == hSetReady(room, c, ready).room IN
                       \A i \in DOMAIN room.stations :
                           (Has(new, i) /\ new.stations[i].ready # room.stations[i].ready)
                               => room.stations[i].ownerClientId = c
                /\ \A i \in DOMAIN room.stations :
                       (Has(gone, i) /\ gone.stations[i].connected # room.stations[i].connected)
                           => room.stations[i].ownerClientId = c

(* C33: an armed empty-room grace timer always targets a room that is in the   *)
(* registry: every code with an armed timer is the code of the registered      *)
(* room, so the expiry of a timer never finds its room gone.                   *)
C33_GraceTimerTargetsLiveRoom ==
    /\ [](\A code \in emptyRoomTimers : live /\ room.code = code)
    /\ [][last'.op = "emptyRoomTimer" => last'.res = "ok"]_vars

(* C34: a room that rests in ENDED is resumable: whenever the room is ENDED    *)
(* after an operation, timeLeft is set and greater than 0.  Stated for rooms    *)
(* that have a slot.                                                           *)
C34_EndedIsResumable ==
    (live /\ room.state = "ENDED" /\ room.stationsCount >= 1)
        => (room.timeLeft # None /\ Val(room.timeLeft) > 0)

(* C35 as stated: a RUNNING room does not stay RUNNING for ever, and unless    *)
(* the controller pauses or deletes it, it leaves RUNNING by emitting the      *)
(* time-up and returning to WAITING with every ready flag cleared.             *)
C35_EveryRoundEndsInTimeUp ==
    /\ (live /\ room.state = "RUNNING") ~> ~(live /\ room.state = "RUNNING")
    /\ [][(/\ live /\ room.state = "RUNNING" /\ room.stationsCount >= 1
            /\ ~(live' /\ room'.state = "RUNNING")) =>
              \/ last'.op \in {"central:pauseRound", "central:deleteRoom"}
              \/ /\ live' /\ room'.state = "WAITING"
                 /\ Times(last'.events, "room:timeUp") = 1
                 /\ \A i \in DOMAIN room'.stations : ~room'.stations[i].ready
         ]_vars

(* C35, amended: a RUNNING room does not stay RUNNING for ever, however late   *)
(* its ticks run; it leaves RUNNING by the controller's pause, by its removal  *)
(* from the registry (the controller's delete or the expiry of the empty-room  *)
(* timer), by the controller's reset, which emits no time-up, or by emitting   *)
(* the time-up (the tick that reads 0, or the skip); in the last three cases   *)
(* it is WAITING with every ready flag cleared.                                *)
C35_EveryRoundEnds ==
    /\ (live /\ room.state = "RUNNING") ~> ~(live /\ room.state = "RUNNING")
    /\ [][(live /\ room.state = "RUNNING" /\ ~(live' /\ room'.state = "RUNNING")) =>
              \/ last'.op = "central:pauseRound" /\ live' /\ room'.state = "ENDED"
              \/ last'.op \in {"central:deleteRoom", "emptyRoomTimer"} /\ ~live'
              \/ /\ live' /\ room'.state = "WAITING"
                 /\ \A i \in DOMAIN room'.stations : ~room'.stations[i].ready
                 /\ \/ last'.op = "central:resetRoom"
                       /\ Times(last'.events, "room:timeUp") = 0
                    \/ last'.op \in {"tick", "central:skipRound"}
                       /\ Times(last'.events, "room:timeUp") = 1
         ]_vars

(* a round that the clock ended, by a tick that ran late, past the round's end *)
C35_Witness ==
    /\ live /\ last.op = "tick" /\ last.res = "timeUp"
    /\ room.state = "WAITING" /\ room.stationsCount = 1
    /\ room.stations[1].ownerClientId # "" /\ ~room.stations[1].ready

(* C36: whenever central:removeStation for an in-range station answers ok, in  *)
(* WAITING, RUNNING or ENDED, the client that owned the target before the      *)
(* command owns no slot of the room afterwards, and the target's seat is       *)
(* either gone, unowned, or held by another client. Stated for an owner that   *)
(* holds the target and no other slot.                                         *)
C36_RemovedOwnerOwnsNothing ==
    live => \A k \in 1..room.stationsCount :
                LET out == hRemoveStation(room, room.centralClientId, k)
                    was == room.stations[k].ownerClientId
                IN (out.res = "ok" /\ was # "" /\ SlotsOwnedBy(room, was) = {k})
                       => /\ SlotsOwnedBy(out.room, was) = {}
                          /\ Has(out.room, k) => out.room.stations[k].ownerClientId # was

====
